---- MODULE Spec2Model ----
(***************************************************************************)
(* Time-entry lifecycle of the daily report system: the TaskTimer          *)
(* component (src/components/task-timer.tsx), the page callbacks           *)
(* (src/app/page.tsx) and the Supabase branch of the useSupabase hook      *)
(* (src/lib/linear/projects.ts) on top of the time_entries table           *)
(* (src/supabase/migrations/001_init.sql); the task filters of the timer   *)
(* and of the hook, the Linear webhook (src/unnamed/part_005) on top of    *)
(* the tasks table, and the admin routes on the user_approvals table       *)
(* (src/app/api/admin/users/[userId]).                                     *)
(*                                                                         *)
(* Instants are milliseconds since the epoch.  A calendar date string      *)
(* "YYYY-MM-DD" is represented by its day number (days since the epoch):   *)
(* the formatting of lines 34-37 is injective on day numbers.  The empty   *)
(* string and null/undefined are 0; every instant and identifier is > 0.   *)
(* The browser's own time zone, which Date.setHours/setDate use, is a      *)
(* fixed offset chosen at Init (no DST inside one run).                    *)
(***************************************************************************)
EXTENDS Integers, FiniteSets, Sequences, Bags, TLC

\* ------------------------------------------------------------------ bounds
NumInstants == 3    \* instants the clock visits
MaxIds == 2         \* generateId() is called at most MaxIds times
MaxCalls == 2       \* handler invocations awaiting the network at one time
NumTasks == 1       \* tasks offered by the selector
SweepDays == 2      \* days of the clock of the zone sweep
MaxJobs == 2        \* sheet function invocations running at one time
MaxSheetRows == 4   \* rows of the monthly sheet, the header included
MaxRows == 2        \* rows the entry dialogs may add to the table
MaxTyped == 4       \* changes the user makes to the date and time inputs
MaxClicks == 2      \* clicks on the save and delete buttons of the dialogs
NumIssues == 1      \* Linear issues the webhook reports on
MaxHooks == 2       \* webhook invocations running at one time
MaxTasks == 3       \* rows the tasks table assigns an id to

\* --------------------------------------------------------------- constants
Hour == 3600000
MsPerDay == 86400000
MsPerSecond == 1000
NoEnd == 0          \* endTime: undefined / end_time NULL
Empty == 0          \* "" (ids, startTime, comments, dates, a blank sheet row)
MsPerMinute == 60000

TIMEZONES ==
  [ Tokyo       |-> 9 * Hour,
    New_York    |-> (0 - 5) * Hour,
    Los_Angeles |-> (0 - 8) * Hour,
    London      |-> 0,
    Shanghai    |-> 8 * Hour,
    Kolkata     |-> 5 * Hour + Hour \div 2,
    Paris       |-> 1 * Hour,
    Sydney      |-> 10 * Hour,
    Auckland    |-> 12 * Hour ]

TimezoneKey == DOMAIN TIMEZONES

DefaultTimezone == "Tokyo"
NoZone == ""

\* Zones the selector is driven through when the whole controller is explored.
Zones == {"Tokyo", "New_York"}

\* Offsets of the browser's own zone the model is run with.
BrowserOffsets == {9 * Hour}

\* The clock visits 14:58:00 and 15:00:05 (UTC) of day 1, of day 2, ...
InstantAt(k) ==
  ((k + 1) \div 2) * MsPerDay
    + (IF k % 2 = 1 THEN 14 * Hour + 58 * 60000 ELSE 15 * Hour + 5000)

Instants == {InstantAt(k) : k \in 1..NumInstants}

\* The clock of the zone sweep visits 23:58:00, 00:00:05 and 12:00:00 local
\* time of the selected zone z, around each of SweepDays midnights.
SweepInstants(z) ==
  {(d + 1) * MsPerDay - TIMEZONES[z] + t :
     d \in 1..SweepDays, t \in {0 - 120000, 5000, 12 * Hour}}

\* The browser may sit in any zone of the table.
SweepOffsets == {TIMEZONES[z] : z \in DOMAIN TIMEZONES}

TaskIds == 1..NumTasks
User == "u1"

VARIABLES
  now,          \* the wall clock
  localOffset,  \* offset of the browser's own zone
  timer,        \* the useState cells of TaskTimer
  tickZone,     \* timezone captured by the closure of the running interval
  timeEntries,  \* the hook's local list of entries (newest first)
  rows,         \* the time_entries table
  calls,        \* handler invocations suspended at an await
  nextId,       \* number of generateId() calls so far
  rowSeq,       \* number of rows the table has assigned an id to
  last,         \* what the last step logged: the outcome of a start, a refused or
                \* failed save, a reload; "-" after any other step
  dlg,          \* the useState cells of the two entry dialogs of the calendar
  sheet,        \* the monthly sheet of the spreadsheet
  jobs,         \* invocations of the sheet functions suspended at an await
  taskTable,    \* the tasks table
  taskSeq,      \* number of rows the tasks table has assigned an id to
  tasks,        \* the hook's local list of tasks
  auth,         \* the signed-in user as AuthContext holds it
  hooks,        \* invocations of the Linear webhook suspended at an await
  approvals     \* the user_approvals table

\* The variables of the task, webhook and approval views.
portal == <<taskTable, taskSeq, tasks, auth, hooks, approvals>>

vars == <<now, localOffset, timer, tickZone, timeEntries, rows, calls, nextId, rowSeq, last,
          dlg, sheet, jobs, portal>>

\* ------------------------------------------------------------ pure helpers
getDateInTimezone(date, timezone) == (date + TIMEZONES[timezone]) \div MsPerDay

\* new Date(t).setHours(23, 59, 59, 999): the browser's zone decides the day
setHoursEndOfDay(t, off) == ((t + off) \div MsPerDay) * MsPerDay + (MsPerDay - 1) - off

\* setHours(0, 0, 0, 0)
setHoursSameDayStart(t, off) == ((t + off) \div MsPerDay) * MsPerDay - off

\* setHours(0, 0, 0, 0) followed by setDate(getDate() + 1)
setHoursNextDayStart(t, off) == ((t + off) \div MsPerDay) * MsPerDay + MsPerDay - off

\* new Date().toISOString().split("T")[0]
utcDate(t) == t \div MsPerDay

\* a || b on strings
Or(a, b) == IF a # Empty THEN a ELSE b

\* Math.max(0, elapsed)
elapsedOf(t, start) ==
  IF 0 >= (t - start) \div MsPerSecond THEN 0 ELSE (t - start) \div MsPerSecond

OpenRows(u) == {r \in rows : r.user = u /\ r.end = NoEnd}

RowIds == {r.id : r \in rows}


\* generateId(): a fresh value of the client, negative here to keep it apart
\* from the ids the table assigns (1, 2, ...).
GeneratedId == 0 - (nextId + 1)

InitialTimer(tz) ==
  [ selectedTaskId |-> Empty, isRunning |-> FALSE, startTime |-> Empty,
    elapsedSeconds |-> 0, comment |-> Empty, pendingComment |-> Empty,
    showCommentDialog |-> FALSE, currentEntryId |-> Empty,
    timezone |-> tz, isSaving |-> FALSE ]

\* calls is a bag: two invocations may hold the same values.
CanSuspend == BagCardinality(calls) < MaxCalls

\* Values the effect of lines 147-175 depends on (its dependency array).
IntervalDeps(tm) ==
  <<tm.isRunning, tm.startTime, tm.selectedTaskId, tm.currentEntryId,
    tm.comment, tm.pendingComment>>

\* Effect of lines 177-188: propose the comment of today's last entry of the task.
RECURSIVE LastMatch(_, _, _)
LastMatch(te, task, today) ==
  IF te = <<>> THEN Empty
  ELSE LET e == te[Len(te)]
       IN IF e.taskId = task /\ e.date = today /\ e.comment # Empty
          THEN e.comment
          ELSE LastMatch(SubSeq(te, 1, Len(te) - 1), task, today)

CommentEffect(tm, te, t) ==
  IF tm.selectedTaskId # Empty /\ tm.comment = Empty
     /\ LastMatch(te, tm.selectedTaskId, utcDate(t)) # Empty
  THEN [tm EXCEPT !.comment = LastMatch(te, tm.selectedTaskId, utcDate(t)),
                  !.pendingComment = LastMatch(te, tm.selectedTaskId, utcDate(t))]
  ELSE tm

\* A state update followed by the re-render and the effects it triggers.
Render(tm, te) ==
  /\ timeEntries' = te
  /\ timer' = CommentEffect(tm, te, now)
  /\ tickZone' = IF ~timer'.isRunning \/ IntervalDeps(timer') # IntervalDeps(timer)
                 THEN timer'.timezone
                 ELSE tickZone

\* ------------------------------------------------------------------ store
\* Row level security: a caller sees and changes only the rows it owns.
VisibleAlways(id) == TRUE
Visible(id) == \E r \in rows : r.id = id /\ r.user = User

\* insert([insertData]).select().single(): the table assigns the id.
InsertedRow(c) ==
  [ id |-> rowSeq + 1, user |-> User, taskId |-> c.taskId, start |-> c.newStart,
    end |-> NoEnd, comment |-> c.comment, date |-> c.date ]

\* update(updateData).eq("id", id) with endTime and comment
UpdatedRowsCommentOnly(id, end, comment) ==
  {IF r.id = id THEN [r EXCEPT !.comment = comment] ELSE r : r \in rows}
UpdatedRows(id, end, comment) ==
  {IF r.id = id THEN [r EXCEPT !.end = end, !.comment = comment] ELSE r : r \in rows}

\* setTimeEntries(prev => prev.map(...))
UpdatedEntries(id, end, comment) ==
  [k \in 1..Len(timeEntries) |->
     IF timeEntries[k].id = id
     THEN [timeEntries[k] EXCEPT !.end = end, !.comment = comment]
     ELSE timeEntries[k]]

\* A suspended invocation: the values its closure holds.  entryId, start, end
\* describe the entry being closed; taskId, newStart, comment, date, newId the
\* entry being created; pend is the pendingComment of the closure.
Call(kind, pc, entryId, start, end, taskId, newStart, comment, date, zone, newId, pend) ==
  [ kind |-> kind, pc |-> pc, entryId |-> entryId, start |-> start, end |-> end,
    taskId |-> taskId, newStart |-> newStart, comment |-> comment, date |-> date,
    zone |-> zone, newId |-> newId, pend |-> pend ]

Suspend(c) == calls' = calls (+) SetToBag({c})
Resume(c, d) == calls' = (calls (-) SetToBag({c})) (+) SetToBag({d})
Finish(c) == calls' = calls (-) SetToBag({c})

Suspended(kind, pc) == {c \in BagToSet(calls) : c.kind = kind /\ c.pc = pc}

\* ------------------------------------------------------ dialogs and sheet
\* An <input type="time"> holds "" or "HH:MM": minutes since midnight.
NoTime == 0 - 1

\* The cells of one dialog after its first render.
BlankFields ==
  [ selectedTaskId |-> Empty, comment |-> Empty, startDate |-> Empty,
    endDate |-> Empty, startTime |-> NoTime, endTime |-> NoTime,
    timeError |-> FALSE ]

\* selectedEntry === null
NoEntry ==
  [ id |-> Empty, user |-> User, taskId |-> Empty, start |-> Empty, end |-> NoEnd,
    comment |-> Empty, date |-> Empty ]

\* WeeklyCalendar with both dialogs closed; open is "none", "edit" or "manual".
ClosedDialogs ==
  [ open |-> "none", entry |-> NoEntry, edit |-> BlankFields, manual |-> BlankFields,
    typed |-> 0, clicks |-> 0 ]

\* The time-entry views are used by User, who is not an admin; the task and
\* approval tables play no part in them.
PortalAtRest ==
  /\ taskTable = {}
  /\ taskSeq = 0
  /\ tasks = {}
  /\ auth = [ user |-> User, isAdmin |-> FALSE ]
  /\ hooks = EmptyBag
  /\ approvals = {}

\* Column A of the header row ("エントリーID"); data rows hold an entry id.
HeaderRow == 0 - 1

\* The spreadsheet before the sheet of the month exists.  values is column A
\* of the sheet, row 1 first.
NoSheet == [ exists |-> FALSE, sheetId |-> 0, values |-> <<>> ]

Init ==
  /\ now = InstantAt(1)
  /\ localOffset \in BrowserOffsets
  /\ \E tz \in Zones : timer = InitialTimer(tz) /\ tickZone = tz
  /\ timeEntries = <<>>
  /\ rows = {}
  /\ calls = EmptyBag
  /\ nextId = 0
  /\ rowSeq = 0
  /\ last = "Init"
  /\ dlg = ClosedDialogs
  /\ sheet = NoSheet
  /\ jobs = EmptyBag
  /\ PortalAtRest

\* ------------------------------------------------------------------ clock
Advance ==
  /\ \E t \in Instants : t > now /\ now' = t
  /\ last' = "-"
  /\ UNCHANGED <<portal, dlg, sheet, jobs, localOffset, timer, tickZone, timeEntries, rows, calls, nextId, rowSeq>>

\* ------------------------------------------------------- selector and zone
SelectTask ==
  /\ ~timer.isRunning
  /\ \E t \in TaskIds :
       /\ t # timer.selectedTaskId
       /\ Render([timer EXCEPT !.selectedTaskId = t], timeEntries)
  /\ last' = "-"
  /\ UNCHANGED <<portal, dlg, sheet, jobs, now, localOffset, rows, calls, nextId, rowSeq>>

handleTimezoneChange ==
  /\ \E z \in Zones :
       /\ z # timer.timezone
       /\ Render([timer EXCEPT !.timezone = z], timeEntries)
  /\ last' = "-"
  /\ UNCHANGED <<portal, dlg, sheet, jobs, now, localOffset, rows, calls, nextId, rowSeq>>

\* ------------------------------------------------------------------ start
\* The click on the start button (enabled while not running), up to the await.
handleStart ==
  /\ ~timer.isRunning
  /\ IF timer.selectedTaskId = Empty
     THEN /\ last' = "handleStart:noTask"
          /\ UNCHANGED <<timer, tickZone, timeEntries, calls, nextId>>
     ELSE /\ CanSuspend
          /\ nextId < MaxIds
          /\ nextId' = nextId + 1
          /\ Suspend(Call("start", "insert", Empty, Empty, NoEnd,
                          timer.selectedTaskId, now,
                          Or(timer.comment, timer.pendingComment),
                          getDateInTimezone(now, timer.timezone), timer.timezone,
                          GeneratedId, Empty))
          /\ last' = "-"
          /\ UNCHANGED <<timer, tickZone, timeEntries>>
  /\ UNCHANGED <<portal, dlg, sheet, jobs, now, localOffset, rows, rowSeq>>

\* savedEntry?.id || newEntry.id: addTimeEntry returns the row the table made.
SavedIdClient(c) == c.newId
SavedId(c) == rowSeq + 1

\* addTimeEntry resolves for a start: the row is inserted and the timer runs,
\* or the insert fails and the error is logged.
StartInsert ==
  \E c \in Suspended("start", "insert") :
    /\ Finish(c)
    /\ \/ /\ rows' = rows \cup {InsertedRow(c)}
          /\ rowSeq' = rowSeq + 1
          /\ Render([timer EXCEPT !.currentEntryId = SavedId(c),
                                  !.startTime = c.newStart,
                                  !.isRunning = TRUE,
                                  !.elapsedSeconds = 0],
                    <<InsertedRow(c)>> \o timeEntries)
          /\ last' = "StartInsert:ok"
       \/ /\ last' = "StartInsert:failed"
          /\ UNCHANGED <<rows, rowSeq, timer, tickZone, timeEntries>>
    /\ UNCHANGED <<portal, dlg, sheet, jobs, now, localOffset, nextId>>

\* ------------------------------------------------------------------- tick
\* One firing of the interval: a split is started or the elapsed time is shown.
Tick ==
  /\ timer.isRunning /\ timer.startTime # Empty
  /\ IF getDateInTimezone(timer.startTime, tickZone) # getDateInTimezone(now, tickZone)
     THEN IF timer.selectedTaskId = Empty \/ timer.currentEntryId = Empty
          THEN /\ last' = "-"
               /\ UNCHANGED <<timer, tickZone, timeEntries, calls, nextId>>
          ELSE /\ CanSuspend
               /\ nextId < MaxIds
               /\ nextId' = nextId + 1
               /\ Suspend(Call("split", "update", timer.currentEntryId, timer.startTime,
                               setHoursEndOfDay(timer.startTime, localOffset),
                               timer.selectedTaskId, Empty,
                               Or(timer.comment, timer.pendingComment),
                               Empty, tickZone, GeneratedId, Empty))
               /\ last' = "-"
               /\ UNCHANGED <<timer, tickZone, timeEntries>>
     ELSE /\ Render([timer EXCEPT !.elapsedSeconds = elapsedOf(now, timer.startTime)],
                    timeEntries)
          /\ last' = "-"
          /\ UNCHANGED <<calls, nextId>>
  /\ UNCHANGED <<portal, dlg, sheet, jobs, now, localOffset, rows, rowSeq>>

\* ------------------------------------------------------------------ split
\* updateTimeEntry of a split resolves: the old entry is closed at the end of
\* its day, or the lookup or the update fails and the rejection is unhandled.
SplitUpdate ==
  \E c \in Suspended("split", "update") :
    /\ \/ /\ Visible(c.entryId)
          /\ rows' = UpdatedRows(c.entryId, c.end, c.comment)
          /\ Render(timer, UpdatedEntries(c.entryId, c.end, c.comment))
          /\ Resume(c, [c EXCEPT !.pc = "sheetUpdate"])
          /\ last' = "-"
       \/ /\ Finish(c)
          /\ last' = "-"
          /\ UNCHANGED <<rows, timer, tickZone, timeEntries>>
    /\ UNCHANGED <<portal, dlg, sheet, jobs, now, localOffset, nextId, rowSeq>>

\* What is logged when a request to a spreadsheet route has returned.
ExportLogged(ok) == IF ok THEN "-" ELSE "export:failed"

\* updateTimeEntry after its request to /api/spreadsheet/update: a response
\* that is not ok and a rejected fetch are logged, and the function returns.
ExportReturnedThrows(c, ok) ==
  IF ok THEN [c EXCEPT !.pc = "sheetWrite"] ELSE [c EXCEPT !.pc = "rejected"]
ExportReturned(c, ok) == [c EXCEPT !.pc = "sheetWrite"]

\* The request to /api/spreadsheet/update made by updateTimeEntry returns; any
\* failure is logged only.
SpreadsheetUpdate ==
  \E c \in Suspended("split", "sheetUpdate") \cup Suspended("stop", "sheetUpdate") :
    /\ \E ok \in BOOLEAN :
         /\ Resume(c, ExportReturned(c, ok))
         /\ last' = ExportLogged(ok)
    /\ UNCHANGED <<portal, dlg, sheet, jobs, now, localOffset, timer, tickZone, timeEntries, rows, nextId, rowSeq>>

\* writeToSpreadsheet of a split returns: the entry of the new day is built and
\* handed to onAddEntry without awaiting it, and the timer is moved to it.
SplitRestart ==
  \E c \in Suspended("split", "sheetWrite") :
    /\ Resume(c, [c EXCEPT
                    !.pc = "insert",
                    !.newStart = setHoursNextDayStart(c.end, localOffset),
                    !.date = getDateInTimezone(
                               setHoursNextDayStart(c.end, localOffset),
                               c.zone)])
    /\ Render([timer EXCEPT !.currentEntryId = c.newId,
                            !.startTime = setHoursNextDayStart(c.end, localOffset),
                            !.elapsedSeconds = 0],
              timeEntries)
    /\ \E ok \in BOOLEAN : last' = ExportLogged(ok)
    /\ UNCHANGED <<portal, dlg, sheet, jobs, now, localOffset, rows, nextId, rowSeq>>

\* addTimeEntry of a split resolves; nobody awaits it.
SplitInsert ==
  \E c \in Suspended("split", "insert") :
    /\ Finish(c)
    /\ \/ /\ rows' = rows \cup {InsertedRow(c)}
          /\ rowSeq' = rowSeq + 1
          /\ Render(timer, <<InsertedRow(c)>> \o timeEntries)
          /\ last' = "-"
       \/ /\ last' = "-"
          /\ UNCHANGED <<rows, rowSeq, timer, tickZone, timeEntries>>
    /\ UNCHANGED <<portal, dlg, sheet, jobs, now, localOffset, nextId>>

\* ------------------------------------------------------------------- stop
handleStop ==
  /\ timer.isRunning /\ timer.selectedTaskId # Empty
  /\ ~timer.showCommentDialog
  /\ Render([timer EXCEPT !.showCommentDialog = TRUE], timeEntries)
  /\ last' = "-"
  /\ UNCHANGED <<portal, dlg, sheet, jobs, now, localOffset, rows, calls, nextId, rowSeq>>

\* onOpenChange(false) or the cancel button
closeCommentDialog ==
  /\ timer.showCommentDialog
  /\ Render([timer EXCEPT !.showCommentDialog = FALSE], timeEntries)
  /\ last' = "-"
  /\ UNCHANGED <<portal, dlg, sheet, jobs, now, localOffset, rows, calls, nextId, rowSeq>>

setPendingComment ==
  /\ timer.showCommentDialog
  /\ \E text \in {Empty, 1} :
       /\ text # timer.pendingComment
       /\ Render([timer EXCEPT !.pendingComment = text], timeEntries)
  /\ last' = "-"
  /\ UNCHANGED <<portal, dlg, sheet, jobs, now, localOffset, rows, calls, nextId, rowSeq>>

\* The isSaving guard of handleSaveEntry.
SaveGuardOff(tm) == FALSE
SaveGuard(tm) == tm.isSaving

\* The click on save in the comment dialog, up to the await.
handleSaveEntry ==
  /\ timer.showCommentDialog
  /\ IF SaveGuard(timer)
     THEN /\ last' = "handleSaveEntry:ignored"
          /\ UNCHANGED <<timer, tickZone, timeEntries, calls>>
     ELSE IF timer.currentEntryId = Empty
     THEN /\ last' = "-"
          /\ UNCHANGED <<timer, tickZone, timeEntries, calls>>
     ELSE /\ CanSuspend
          /\ Suspend(Call("stop", "update", timer.currentEntryId, Empty, now,
                          Empty, Empty, timer.pendingComment, Empty,
                          NoZone, Empty, timer.pendingComment))
          /\ Render([timer EXCEPT !.isSaving = TRUE], timeEntries)
          /\ last' = "-"
  /\ UNCHANGED <<portal, dlg, sheet, jobs, now, localOffset, rows, nextId, rowSeq>>

\* The timer after the catch block of handleSaveEntry.
SaveFailedStuck(tm) == tm
SaveFailed(tm) == [tm EXCEPT !.isSaving = FALSE]

\* updateTimeEntry of a stop resolves: the entry is closed, or the failure is
\* caught, logged and the saving flag released.
StopUpdate ==
  \E c \in Suspended("stop", "update") :
    /\ \/ /\ Visible(c.entryId)
          /\ rows' = UpdatedRows(c.entryId, c.end, c.comment)
          /\ Render(timer, UpdatedEntries(c.entryId, c.end, c.comment))
          /\ Resume(c, [c EXCEPT !.pc = "sheetUpdate"])
          /\ last' = "-"
       \/ /\ Finish(c)
          /\ Render(SaveFailed(timer), timeEntries)
          /\ last' = "StopUpdate:failed"
          /\ UNCHANGED rows
    /\ UNCHANGED <<portal, dlg, sheet, jobs, now, localOffset, nextId, rowSeq>>

\* writeToSpreadsheet of a stop returns: the timer becomes idle.
StopFinish ==
  \E c \in Suspended("stop", "sheetWrite") :
    /\ Finish(c)
    /\ Render([timer EXCEPT !.isRunning = FALSE, !.startTime = Empty,
                            !.elapsedSeconds = 0, !.comment = c.pend,
                            !.currentEntryId = Empty, !.showCommentDialog = FALSE,
                            !.isSaving = FALSE],
              timeEntries)
    /\ \E ok \in BOOLEAN : last' = ExportLogged(ok)
    /\ UNCHANGED <<portal, dlg, sheet, jobs, now, localOffset, rows, nextId, rowSeq>>

\* ----------------------------------------------------------------- reload
\* fetchTimeEntries: the caller's rows, order("start_time", descending); rows
\* with equal start_time come in any order.
Fetched ==
  LET mine == {r \in rows : r.user = User}
      n == Cardinality(mine)
  IN {s \in [1..n -> mine] :
        /\ \A j, k \in 1..n : j # k => s[j] # s[k]
        /\ \A k \in 1..(n - 1) : s[k].start >= s[k + 1].start}

\* timeEntries.find((entry) => !entry.endTime): 0 when there is none
ActiveIndex(te) ==
  IF \E k \in 1..Len(te) : te[k].end = NoEnd
  THEN CHOOSE k \in 1..Len(te) :
         /\ te[k].end = NoEnd
         /\ \A j \in 1..(k - 1) : te[j].end # NoEnd
  ELSE 0

\* The zone the restore effect reads: it runs in the commit of the first
\* render, whose timezone cell still holds the useState default; the zone
\* loaded from localStorage by the effect of lines 61-67 arrives with the
\* next render.
RestoreZone(tz) == DefaultTimezone

\* The cells after the effects of the first commit (lines 61-67 and 190-228).
Restored(te, tz, t) ==
  IF ActiveIndex(te) = 0 THEN InitialTimer(tz)
  ELSE LET e == te[ActiveIndex(te)]
       IN [InitialTimer(tz) EXCEPT
             !.currentEntryId = e.id,
             !.selectedTaskId = e.taskId,
             !.startTime = e.start,
             !.isRunning = TRUE,
             !.comment = e.comment,
             !.pendingComment = e.comment,
             !.elapsedSeconds =
                IF getDateInTimezone(e.start, RestoreZone(tz))
                     # getDateInTimezone(t, RestoreZone(tz))
                THEN 0
                ELSE elapsedOf(t, e.start)]

\* The page is loaded again (or the component is mounted again after the hook
\* reloaded its data): suspended handlers are gone, the list is fetched and the
\* open entry restored.
Reload ==
  /\ rows # {}
  /\ \E te \in Fetched :
       /\ timeEntries' = te
       /\ timer' = CommentEffect(Restored(te, timer.timezone, now), te, now)
  /\ tickZone' = timer'.timezone
  /\ calls' = EmptyBag
  /\ last' = "Reload"
  /\ UNCHANGED <<portal, dlg, sheet, jobs, now, localOffset, rows, nextId, rowSeq>>

Next ==
  \/ Advance
  \/ SelectTask
  \/ handleTimezoneChange
  \/ handleStart
  \/ StartInsert
  \/ Tick
  \/ SplitUpdate
  \/ SpreadsheetUpdate
  \/ SplitRestart
  \/ SplitInsert
  \/ handleStop
  \/ closeCommentDialog
  \/ setPendingComment
  \/ handleSaveEntry
  \/ StopUpdate
  \/ StopFinish
  \/ Reload

Spec == Init /\ [][Next]_vars

\* ------------------------------------------------------------- zone sweep
\* The same timer driven through every zone of the table and every browser
\* zone, by a user who starts the timer and lets it run.
InitSweep ==
  /\ \E tz \in TimezoneKey :
       /\ timer = InitialTimer(tz) /\ tickZone = tz
       /\ now \in SweepInstants(tz) /\ \A t \in SweepInstants(tz) : now <= t
  /\ localOffset \in SweepOffsets
  /\ timeEntries = <<>>
  /\ rows = {}
  /\ calls = EmptyBag
  /\ nextId = 0
  /\ rowSeq = 0
  /\ last = "Init"
  /\ dlg = ClosedDialogs
  /\ sheet = NoSheet
  /\ jobs = EmptyBag
  /\ PortalAtRest

AdvanceSweep ==
  /\ \E t \in SweepInstants(timer.timezone) : t > now /\ now' = t
  /\ last' = "-"
  /\ UNCHANGED <<portal, dlg, sheet, jobs, localOffset, timer, tickZone, timeEntries, rows, calls, nextId, rowSeq>>

NextSweep ==
  \/ AdvanceSweep
  \/ SelectTask
  \/ handleStart
  \/ StartInsert
  \/ Tick
  \/ SplitUpdate
  \/ SpreadsheetUpdate
  \/ SplitRestart
  \/ SplitInsert

SpecSweep == InitSweep /\ [][NextSweep]_vars

\* ---------------------------------------------------- calendar and dialogs
\* WeeklyCalendar with TimeEntryDialog (edit) and ManualTimeEntryDialog
\* (manual), the page callbacks they call and the hook functions behind them.
\* The dialogs read and write dates and times in the browser's own zone.

\* getFullYear/getMonth/getDate of new Date(t), as "YYYY-MM-DD"
localDate(t) == (t + localOffset) \div MsPerDay

\* getHours/getMinutes of new Date(t), as "HH:MM"
localMinutes(t) == ((t + localOffset) % MsPerDay) \div MsPerMinute

\* new Date(`${d}T${hh:mm}:00`): Invalid Date when a part is ""
ValidDateTime(d, m) == d # Empty /\ m # NoTime
parseLocal(d, m) == d * MsPerDay + m * MsPerMinute - localOffset

\* new Date(`${d}T23:59:59.999`) and new Date(`${d}T00:00:00.000`)
endOfLocalDate(d) == d * MsPerDay + (MsPerDay - 1) - localOffset
startOfLocalDate(d) == d * MsPerDay - localOffset

\* What the user may type into the date and time inputs.
DateInputs ==
  {Empty} \cup {(t + o) \div MsPerDay :
                  t \in Instants \cup {InstantAt(NumInstants) + MsPerDay}, o \in BrowserOffsets}
TimeInputs == {NoTime, 0, 23 * 60 + 59}

TimeDeps(f) == <<f.startDate, f.endDate, f.startTime, f.endTime>>

\* The validation effect after a render that changed f into g: the time
\* validation of both dialogs and the message it would set.
ValidationEffect(f, g, t) ==
  IF TimeDeps(g) = TimeDeps(f) THEN g
  ELSE IF g.startDate # Empty /\ g.endDate # Empty
          /\ g.startTime # NoTime /\ g.endTime # NoTime
  THEN [g EXCEPT !.timeError =
                   \/ parseLocal(g.endDate, g.endTime) > t
                   \/ parseLocal(g.startDate, g.startTime) > t
                   \/ parseLocal(g.startDate, g.startTime)
                        >= parseLocal(g.endDate, g.endTime)]
  ELSE g

\* The effect on [entry] of TimeEntryDialog, then the validation effect.
EntryEffect(f, e, t) ==
  LET g == [f EXCEPT !.comment = e.comment,
                     !.startDate = localDate(e.start),
                     !.startTime = localMinutes(e.start),
                     !.endDate = IF e.end # NoEnd THEN localDate(e.end) ELSE f.endDate,
                     !.endTime = IF e.end # NoEnd THEN localMinutes(e.end) ELSE f.endTime,
                     !.timeError = FALSE]
  IN ValidationEffect(f, g, t)

\* Handler invocations awaiting the network: one click may start up to three
\* when none is pending, and MaxCalls are pending otherwise.
CanSuspendN(n) == calls = EmptyBag \/ BagCardinality(calls) + n <= MaxCalls

\* The call of addTimeEntry for a closed entry from start to end dated date.
AddCall(taskId, start, end, comment, date) ==
  Call("add", "insert", Empty, Empty, end, taskId, start, comment, date, NoZone, Empty, Empty)

\* The call of deleteTimeEntry.
DeleteCall(id) ==
  Call("delete", "select", id, Empty, NoEnd, Empty, Empty, Empty, Empty, NoZone, Empty, Empty)

\* The row addTimeEntry inserts for an entry that has an end.
InsertedClosedRow(c) == [InsertedRow(c) EXCEPT !.end = c.end]

EditedEntries(c) ==
  [k \in 1..Len(timeEntries) |->
     IF timeEntries[k].id = c.entryId
     THEN [timeEntries[k] EXCEPT !.start = c.newStart, !.end = c.end,
                                 !.comment = c.comment, !.date = c.date]
     ELSE timeEntries[k]]

\* prev.filter((entry) => entry.id !== id)
RECURSIVE FilteredEntries(_, _)
FilteredEntries(te, id) ==
  IF te = <<>> THEN <<>>
  ELSE IF te[1].id = id THEN FilteredEntries(Tail(te), id)
  ELSE <<te[1]>> \o FilteredEntries(Tail(te), id)

\* The button that opens ManualTimeEntryDialog, and its effect on [open].
openManualDialog ==
  /\ dlg.open = "none"
  /\ dlg' = [dlg EXCEPT !.open = "manual",
                        !.manual = [BlankFields EXCEPT !.startDate = localDate(now),
                                                       !.endDate = localDate(now)]]
  /\ last' = "-"
  /\ UNCHANGED <<portal, sheet, jobs, now, localOffset, timer, tickZone, timeEntries, rows, calls, nextId, rowSeq>>

\* handleEntryClick: the dialog shows the entry; its effect on [entry] runs
\* when the entry is not the one selected before.
handleEntryClick ==
  /\ dlg.open = "none"
  /\ \E k \in 1..Len(timeEntries) :
       dlg' = [dlg EXCEPT !.open = "edit",
                          !.entry = timeEntries[k],
                          !.edit = IF timeEntries[k] = dlg.entry THEN dlg.edit
                                   ELSE EntryEffect(dlg.edit, timeEntries[k], now)]
  /\ last' = "-"
  /\ UNCHANGED <<portal, sheet, jobs, now, localOffset, timer, tickZone, timeEntries, rows, calls, nextId, rowSeq>>

\* onOpenChange(false) of either dialog.  The cells of the manual dialog are
\* reset by its effect the next time it opens and are not read before that;
\* those of the edit dialog, and selectedEntry, stay.
closeDialog ==
  /\ dlg.open # "none"
  /\ dlg' = [dlg EXCEPT !.open = "none", !.manual = BlankFields]
  /\ last' = "-"
  /\ UNCHANGED <<portal, sheet, jobs, now, localOffset, timer, tickZone, timeEntries, rows, calls, nextId, rowSeq>>

\* The task Select of the manual dialog.
setSelectedTaskId ==
  /\ dlg.open = "manual"
  /\ \E t \in TaskIds :
       /\ t # dlg.manual.selectedTaskId
       /\ dlg' = [dlg EXCEPT !.manual.selectedTaskId = t]
  /\ last' = "-"
  /\ UNCHANGED <<portal, sheet, jobs, now, localOffset, timer, tickZone, timeEntries, rows, calls, nextId, rowSeq>>

\* setStartDate, setEndDate, setStartTime, setEndTime of the manual dialog
manualInput ==
  /\ dlg.open = "manual"
  /\ dlg.typed < MaxTyped
  /\ \E g \in ({[dlg.manual EXCEPT !.startDate = d] : d \in DateInputs}
                 \cup {[dlg.manual EXCEPT !.endDate = d] : d \in DateInputs}
                 \cup {[dlg.manual EXCEPT !.startTime = m] : m \in TimeInputs}
                 \cup {[dlg.manual EXCEPT !.endTime = m] : m \in TimeInputs})
                \ {dlg.manual} :
       dlg' = [dlg EXCEPT !.manual = ValidationEffect(dlg.manual, g, now),
                          !.typed = dlg.typed + 1]
  /\ last' = "-"
  /\ UNCHANGED <<portal, sheet, jobs, now, localOffset, timer, tickZone, timeEntries, rows, calls, nextId, rowSeq>>

\* The calls of onAdd made by handleSave of the manual dialog before it
\* returns or toISOString throws on an Invalid Date.
ManualTimesMissing(f) == f.startTime = NoTime \/ f.endTime = NoTime

ManualAdds(f) ==
  IF f.startDate # f.endDate
  THEN IF f.startDate = Empty THEN <<>>
       ELSE <<AddCall(f.selectedTaskId, parseLocal(f.startDate, f.startTime),
                      endOfLocalDate(f.startDate), f.comment, f.startDate)>>
            \o (IF f.endDate = Empty THEN <<>>
                ELSE <<AddCall(f.selectedTaskId, startOfLocalDate(f.endDate),
                               parseLocal(f.endDate, f.endTime), f.comment, f.endDate)>>)
  ELSE IF f.startDate = Empty THEN <<>>
       ELSE <<AddCall(f.selectedTaskId, parseLocal(f.startDate, f.startTime),
                      parseLocal(f.endDate, f.endTime), f.comment, f.startDate)>>

\* handleSave reaches onOpenChange(false)
ManualCompletes(f) == f.startDate # Empty /\ f.endDate # Empty

SuspendAll(cs) ==
  calls' = calls (+) [c \in {cs[k] : k \in 1..Len(cs)} |->
                        Cardinality({k \in 1..Len(cs) : cs[k] = c})]

\* The click on the add button of the manual dialog (enabled while there is
\* no error message and a task is selected).
manualHandleSave ==
  /\ dlg.open = "manual"
  /\ ~dlg.manual.timeError /\ dlg.manual.selectedTaskId # Empty
  /\ dlg.clicks < MaxClicks
  /\ IF ManualTimesMissing(dlg.manual)
     THEN /\ dlg' = [dlg EXCEPT !.manual.timeError = TRUE, !.clicks = dlg.clicks + 1]
          /\ last' = "handleSave:rejected"
          /\ UNCHANGED calls
     ELSE /\ CanSuspendN(Len(ManualAdds(dlg.manual)))
          /\ SuspendAll(ManualAdds(dlg.manual))
          /\ dlg' = IF ManualCompletes(dlg.manual)
                    THEN [dlg EXCEPT !.open = "none", !.manual = BlankFields,
                                     !.clicks = dlg.clicks + 1]
                    ELSE [dlg EXCEPT !.clicks = dlg.clicks + 1]
          /\ last' = IF ManualCompletes(dlg.manual) THEN "-"
                     ELSE "handleSave:threw"
  /\ UNCHANGED <<portal, sheet, jobs, now, localOffset, timer, tickZone, timeEntries, rows, nextId, rowSeq>>

\* The calls made by handleSave of the edit dialog: across two dates onDelete
\* comes first, then each onAdd until toISOString throws; on one date onUpdate.
EditCalls(f, e) ==
  IF f.startDate # f.endDate
  THEN <<DeleteCall(e.id)>>
       \o (IF ~ValidDateTime(f.startDate, f.startTime) THEN <<>>
           ELSE <<AddCall(e.taskId, parseLocal(f.startDate, f.startTime),
                          endOfLocalDate(f.startDate), f.comment, f.startDate)>>
                \o (IF ~ValidDateTime(f.endDate, f.endTime) THEN <<>>
                    ELSE <<AddCall(e.taskId, startOfLocalDate(f.endDate),
                                   parseLocal(f.endDate, f.endTime), f.comment,
                                   f.endDate)>>))
  ELSE IF ValidDateTime(f.startDate, f.startTime) /\ ValidDateTime(f.endDate, f.endTime)
       THEN <<Call("edit", "update", e.id, Empty, parseLocal(f.endDate, f.endTime),
                   Empty, parseLocal(f.startDate, f.startTime), f.comment,
                   f.startDate, NoZone, Empty, Empty)>>
       ELSE <<>>

\* The click on the save button of the edit dialog (enabled while there is no
\* error message).  handleUpdateEntry and handleDeleteEntry of the calendar
\* close the dialog and clear selectedEntry.
editHandleSave ==
  /\ dlg.open = "edit"
  /\ ~dlg.edit.timeError
  /\ dlg.clicks < MaxClicks
  /\ CanSuspendN(Len(EditCalls(dlg.edit, dlg.entry)))
  /\ SuspendAll(EditCalls(dlg.edit, dlg.entry))
  /\ dlg' = IF EditCalls(dlg.edit, dlg.entry) = <<>>
            THEN [dlg EXCEPT !.clicks = dlg.clicks + 1]
            ELSE [dlg EXCEPT !.open = "none", !.entry = NoEntry,
                             !.clicks = dlg.clicks + 1]
  /\ last' = IF EditCalls(dlg.edit, dlg.entry) = <<>> THEN "handleSave:threw"
             ELSE "-"
  /\ UNCHANGED <<portal, sheet, jobs, now, localOffset, timer, tickZone, timeEntries, rows, nextId, rowSeq>>

\* The delete button of the edit dialog.
editDelete ==
  /\ dlg.open = "edit"
  /\ dlg.clicks < MaxClicks
  /\ CanSuspendN(1)
  /\ Suspend(DeleteCall(dlg.entry.id))
  /\ dlg' = [dlg EXCEPT !.open = "none", !.entry = NoEntry, !.clicks = dlg.clicks + 1]
  /\ last' = "-"
  /\ UNCHANGED <<portal, sheet, jobs, now, localOffset, timer, tickZone, timeEntries, rows, nextId, rowSeq>>

\* addTimeEntry of handleAddEntry resolves: the row is inserted, or the error
\* is logged.
AddInsert ==
  /\ \E c \in Suspended("add", "insert") :
       /\ Finish(c)
       /\ \/ /\ rowSeq < MaxRows
             /\ rows' = rows \cup {InsertedClosedRow(c)}
             /\ rowSeq' = rowSeq + 1
             /\ Render(timer, <<InsertedClosedRow(c)>> \o timeEntries)
             /\ last' = "-"
          \/ /\ last' = "-"
             /\ UNCHANGED <<rows, rowSeq, timer, tickZone, timeEntries>>
  /\ UNCHANGED <<portal, dlg, sheet, jobs, now, localOffset, nextId>>

\* updateTimeEntry of handleUpdateEntry resolves: the row is changed and the
\* request to /api/spreadsheet/update sent, or it throws (not found, or the
\* update failed) and nobody catches the rejection.
EditUpdate ==
  /\ \E c \in Suspended("edit", "update") :
       \/ /\ Visible(c.entryId)
          /\ rows' = {IF r.id = c.entryId
                       THEN [r EXCEPT !.start = c.newStart, !.end = c.end,
                                      !.comment = c.comment, !.date = c.date]
                       ELSE r : r \in rows}
          /\ Render(timer, EditedEntries(c))
          /\ Resume(c, [c EXCEPT !.pc = "sheetUpdate"])
          /\ last' = "-"
       \/ /\ Finish(c)
          /\ last' = "updateTimeEntry:failed"
          /\ UNCHANGED <<rows, timer, tickZone, timeEntries>>
  /\ UNCHANGED <<portal, dlg, sheet, jobs, now, localOffset, nextId, rowSeq>>

\* The response of /api/spreadsheet/update to updateTimeEntry of an edit.
EditExported ==
  /\ \E c \in Suspended("edit", "sheetUpdate") :
       /\ Finish(c)
       /\ \E ok \in BOOLEAN : last' = ExportLogged(ok)
  /\ UNCHANGED <<portal, dlg, sheet, jobs, now, localOffset, timer, tickZone, timeEntries, rows, nextId, rowSeq>>

\* deleteTimeEntry: select("start_time").eq("id", id).single(); an error of
\* the select is logged only.
DeleteSelect ==
  /\ \E c \in Suspended("delete", "select") :
       \/ \E r \in rows :
            /\ r.id = c.entryId /\ r.user = User
            /\ Resume(c, [c EXCEPT !.pc = "delete", !.start = r.start])
       \/ /\ ~Visible(c.entryId)
          /\ Resume(c, [c EXCEPT !.pc = "delete"])
  /\ last' = "-"
  /\ UNCHANGED <<portal, dlg, sheet, jobs, now, localOffset, timer, tickZone, timeEntries, rows, nextId, rowSeq>>

\* deleteTimeEntry: delete().eq("id", id) removes the rows the caller may
\* delete, none being no error; then the local list is filtered and, when the
\* select had found the entry, /api/spreadsheet/delete is requested.
DeleteRow ==
  /\ \E c \in Suspended("delete", "delete") :
       \/ /\ rows' = {r \in rows : ~(r.id = c.entryId /\ r.user = User)}
          /\ Render(timer, FilteredEntries(timeEntries, c.entryId))
          /\ IF c.start # Empty
             THEN Resume(c, [c EXCEPT !.pc = "sheetDelete"])
             ELSE Finish(c)
          /\ last' = "deleteTimeEntry:ok"
       \/ /\ Finish(c)
          /\ last' = "deleteTimeEntry:failed"
          /\ UNCHANGED <<rows, timer, tickZone, timeEntries>>
  /\ UNCHANGED <<portal, dlg, sheet, jobs, now, localOffset, nextId, rowSeq>>

\* The response of /api/spreadsheet/delete.
DeleteExported ==
  /\ \E c \in Suspended("delete", "sheetDelete") :
       /\ Finish(c)
       /\ \E ok \in BOOLEAN : last' = ExportLogged(ok)
  /\ UNCHANGED <<portal, dlg, sheet, jobs, now, localOffset, timer, tickZone, timeEntries, rows, nextId, rowSeq>>

\* The calendar with the manual dialog only.
InitManual ==
  /\ now = InstantAt(NumInstants)
  /\ localOffset \in BrowserOffsets
  /\ \E tz \in Zones : timer = InitialTimer(tz) /\ tickZone = tz
  /\ timeEntries = <<>>
  /\ rows = {}
  /\ calls = EmptyBag
  /\ nextId = 0
  /\ rowSeq = 0
  /\ last = "Init"
  /\ dlg = ClosedDialogs
  /\ sheet = NoSheet
  /\ jobs = EmptyBag
  /\ PortalAtRest

NextManual ==
  \/ openManualDialog
  \/ closeDialog
  \/ setSelectedTaskId
  \/ manualInput
  \/ manualHandleSave
  \/ AddInsert

SpecManual == InitManual /\ [][NextManual]_vars

\* The manual dialog a day later: the dates of three days lie in the past.
InitManualDays ==
  /\ now = InstantAt(NumInstants) + MsPerDay
  /\ localOffset \in BrowserOffsets
  /\ \E tz \in Zones : timer = InitialTimer(tz) /\ tickZone = tz
  /\ timeEntries = <<>>
  /\ rows = {}
  /\ calls = EmptyBag
  /\ nextId = 0
  /\ rowSeq = 0
  /\ last = "Init"
  /\ dlg = ClosedDialogs
  /\ sheet = NoSheet
  /\ jobs = EmptyBag
  /\ PortalAtRest

SpecManualDays == InitManualDays /\ [][NextManual]_vars

\* The timer and the calendar with the edit dialog.
InitEntries ==
  /\ now = InstantAt(1)
  /\ localOffset \in BrowserOffsets
  /\ timer = InitialTimer(DefaultTimezone) /\ tickZone = DefaultTimezone
  /\ timeEntries = <<>>
  /\ rows = {}
  /\ calls = EmptyBag
  /\ nextId = 0
  /\ rowSeq = 0
  /\ last = "Init"
  /\ dlg = ClosedDialogs
  /\ sheet = NoSheet
  /\ jobs = EmptyBag
  /\ PortalAtRest

NextEntries ==
  \/ Advance
  \/ SelectTask
  \/ handleStart
  \/ StartInsert
  \/ Tick
  \/ SplitUpdate
  \/ SpreadsheetUpdate
  \/ SplitRestart
  \/ SplitInsert
  \/ handleStop
  \/ handleSaveEntry
  \/ StopUpdate
  \/ StopFinish
  \/ handleEntryClick
  \/ closeDialog
  \/ editHandleSave
  \/ editDelete
  \/ AddInsert
  \/ EditUpdate
  \/ EditExported
  \/ DeleteSelect
  \/ DeleteRow
  \/ DeleteExported

SpecEntries == InitEntries /\ [][NextEntries]_vars

\* ------------------------------------------------------ spreadsheet mirror
\* The sheet functions of src/lib/google-sheets.ts and the routes that call
\* them, run by any number of clients at once.  All entries fall in one month,
\* so there is one monthly sheet.
NoIndex == 0 - 1

\* sheetId the API gives a sheet made by addSheet; the first sheet of a
\* spreadsheet, when it was renamed to the month, has sheetId 0.
NewSheetId == 1

\* The table the routes read: two closed entries and an open one.
SheetEntries ==
  { [ id |-> 1, user |-> User, taskId |-> 1, start |-> InstantAt(1),
      end |-> InstantAt(2), comment |-> Empty, date |-> utcDate(InstantAt(1)) ],
    [ id |-> 2, user |-> User, taskId |-> 1, start |-> InstantAt(2),
      end |-> InstantAt(3), comment |-> Empty, date |-> utcDate(InstantAt(2)) ],
    [ id |-> 3, user |-> User, taskId |-> 1, start |-> InstantAt(3),
      end |-> NoEnd, comment |-> Empty, date |-> utcDate(InstantAt(3)) ] }

Job(fn, id, pc, idx) == [ fn |-> fn, id |-> id, pc |-> pc, idx |-> idx ]

Running(pc) == {j \in BagToSet(jobs) : j.pc = pc}

Spawn(j) == jobs' = jobs (+) SetToBag({j})
Step(j, k) == jobs' = (jobs (-) SetToBag({j})) (+) SetToBag({k})
Return(j) == jobs' = jobs (-) SetToBag({j})

CanRun ==
  /\ BagCardinality(jobs) < MaxJobs
  /\ Len(sheet.values) + BagCardinality(jobs) < MaxSheetRows

\* rows.findIndex((row, index) => index > 0 && row[0] === id): the index
\* counts from 0, the header row being row 0.
findIndex(values, id) ==
  IF \E k \in 2..Len(values) : values[k] = id
  THEN (CHOOSE k \in 2..Len(values) :
          values[k] = id /\ \A m \in 2..(k - 1) : values[m] # id) - 1
  ELSE NoIndex

\* values.update on row k of the sheet (rows count from 1)
WriteRow(values, k, x) ==
  IF k <= Len(values) THEN [values EXCEPT ![k] = x]
  ELSE values \o [m \in 1..(k - Len(values)) |-> IF m = k - Len(values) THEN x ELSE Empty]

\* values.get returns the rows up to the last row that is not blank
RECURSIVE Trim(_)
Trim(values) ==
  IF values # <<>> /\ values[Len(values)] = Empty
  THEN Trim(SubSeq(values, 1, Len(values) - 1))
  ELSE values

\* The checks of the update route before it calls the sheet function: the
\* entry is readable, belongs to the caller and has a start and an end.
Mirrorable(id) ==
  \E r \in rows : r.id = id /\ r.user = User /\ r.start # Empty /\ r.end # NoEnd

\* POST /api/spreadsheet/update
spreadsheetUpdateRoute ==
  /\ \E id \in RowIds :
       /\ CanRun
       /\ IF Mirrorable(id)
          THEN Spawn(Job("update", id, "ensure", NoIndex)) /\ last' = "-"
          ELSE UNCHANGED jobs /\ last' = "route:refused"
  /\ UNCHANGED <<portal, dlg, sheet, now, localOffset, timer, tickZone, timeEntries, rows, calls, nextId, rowSeq>>

\* POST /api/spreadsheet/write: mirrors a closed entry with writeTimeEntryToSheet
spreadsheetWriteRoute ==
  /\ \E id \in RowIds :
       /\ CanRun
       /\ IF Mirrorable(id)
          THEN Spawn(Job("write", id, "ensure", NoIndex)) /\ last' = "-"
          ELSE UNCHANGED jobs /\ last' = "route:refused"
  /\ UNCHANGED <<portal, dlg, sheet, now, localOffset, timer, tickZone, timeEntries, rows, calls, nextId, rowSeq>>

\* POST /api/spreadsheet/delete: timeEntryId and startTime are all it needs
spreadsheetDeleteRoute ==
  /\ \E id \in RowIds :
       /\ BagCardinality(jobs) < MaxJobs
       /\ Spawn(Job("delete", id, "get", NoIndex))
  /\ last' = "-"
  /\ UNCHANGED <<portal, dlg, sheet, now, localOffset, timer, tickZone, timeEntries, rows, calls, nextId, rowSeq>>

AfterEnsure(j) == IF j.fn = "write" THEN "append" ELSE "get"

\* ensureMonthlySheetExists: spreadsheets.get and the test of sheetExists
ensureMonthlySheetExists ==
  /\ \E j \in Running("ensure") :
       Step(j, [j EXCEPT !.pc = IF sheet.exists THEN AfterEnsure(j) ELSE "addSheet"])
  /\ last' = "-"
  /\ UNCHANGED <<portal, dlg, sheet, now, localOffset, timer, tickZone, timeEntries, rows, calls, nextId, rowSeq>>

\* batchUpdate addSheet: the API refuses a title that exists by now
addSheet ==
  /\ \E j \in Running("addSheet") :
       IF sheet.exists
       THEN Return(j) /\ last' = "sheet:failed" /\ UNCHANGED sheet
       ELSE /\ sheet' = [ exists |-> TRUE, sheetId |-> NewSheetId, values |-> <<>> ]
            /\ Step(j, [j EXCEPT !.pc = "header"])
            /\ last' = "-"
  /\ UNCHANGED <<portal, dlg, now, localOffset, timer, tickZone, timeEntries, rows, calls, nextId, rowSeq>>

\* values.update of A1:K1 with the header
headerValues ==
  /\ \E j \in Running("header") :
       /\ sheet' = [sheet EXCEPT !.values = WriteRow(sheet.values, 1, HeaderRow)]
       /\ Step(j, [j EXCEPT !.pc = AfterEnsure(j)])
  /\ last' = "-"
  /\ UNCHANGED <<portal, dlg, now, localOffset, timer, tickZone, timeEntries, rows, calls, nextId, rowSeq>>

\* updateTimeEntryInSheet: values.get and the search for the row of the entry
updateGet ==
  /\ \E j \in Running("get") :
       /\ j.fn = "update"
       /\ IF Len(sheet.values) <= 1
          THEN Return(j) /\ last' = "sheet:failed"
          ELSE /\ Step(j, [j EXCEPT
                             !.pc = IF findIndex(sheet.values, j.id) = NoIndex
                                    THEN "append" ELSE "update",
                             !.idx = findIndex(sheet.values, j.id)])
               /\ last' = "-"
  /\ UNCHANGED <<portal, dlg, sheet, now, localOffset, timer, tickZone, timeEntries, rows, calls, nextId, rowSeq>>

\* values.append of writeTimeEntryToSheet and of updateTimeEntryInSheet
valuesAppend ==
  /\ \E j \in Running("append") :
       /\ sheet' = [sheet EXCEPT !.values = Append(sheet.values, j.id)]
       /\ Return(j)
  /\ last' = "sheet:ok"
  /\ UNCHANGED <<portal, dlg, now, localOffset, timer, tickZone, timeEntries, rows, calls, nextId, rowSeq>>

\* values.update of the row found
valuesUpdate ==
  /\ \E j \in Running("update") :
       /\ sheet' = [sheet EXCEPT !.values = WriteRow(sheet.values, j.idx + 1, j.id)]
       /\ Return(j)
  /\ last' = "sheet:ok"
  /\ UNCHANGED <<portal, dlg, now, localOffset, timer, tickZone, timeEntries, rows, calls, nextId, rowSeq>>

\* deleteTimeEntryFromSheet: values.get and the search for the row
deleteGet ==
  /\ \E j \in Running("get") :
       /\ j.fn = "delete"
       /\ IF ~sheet.exists \/ Len(sheet.values) <= 1
          THEN Return(j) /\ last' = "sheet:failed"
          ELSE IF findIndex(sheet.values, j.id) = NoIndex
          THEN Return(j) /\ last' = "sheet:skipped"
          ELSE /\ Step(j, [j EXCEPT !.pc = "meta", !.idx = findIndex(sheet.values, j.id)])
               /\ last' = "-"
  /\ UNCHANGED <<portal, dlg, sheet, now, localOffset, timer, tickZone, timeEntries, rows, calls, nextId, rowSeq>>

\* spreadsheets.get and the test !sheet || !sheet.properties?.sheetId
deleteMeta ==
  /\ \E j \in Running("meta") :
       IF ~sheet.exists \/ sheet.sheetId = 0
       THEN Return(j) /\ last' = "sheet:failed"
       ELSE Step(j, [j EXCEPT !.pc = "remove"]) /\ last' = "-"
  /\ UNCHANGED <<portal, dlg, sheet, now, localOffset, timer, tickZone, timeEntries, rows, calls, nextId, rowSeq>>

\* batchUpdate deleteDimension of the row found
deleteDimension ==
  /\ \E j \in Running("remove") :
       /\ sheet' = [sheet EXCEPT !.values =
                      Trim(IF j.idx + 1 <= Len(sheet.values)
                           THEN SubSeq(sheet.values, 1, j.idx)
                                  \o SubSeq(sheet.values, j.idx + 2, Len(sheet.values))
                           ELSE sheet.values)]
       /\ Return(j)
  /\ last' = "sheet:ok"
  /\ UNCHANGED <<portal, dlg, now, localOffset, timer, tickZone, timeEntries, rows, calls, nextId, rowSeq>>

InitSheet ==
  /\ now = InstantAt(NumInstants)
  /\ localOffset \in BrowserOffsets
  /\ timer = InitialTimer(DefaultTimezone) /\ tickZone = DefaultTimezone
  /\ timeEntries = <<>>
  /\ rows = SheetEntries
  /\ calls = EmptyBag
  /\ nextId = 0
  /\ rowSeq = Cardinality(SheetEntries)
  /\ last = "Init"
  /\ dlg = ClosedDialogs
  /\ sheet \in {NoSheet} \cup
                { [ exists |-> TRUE, sheetId |-> g, values |-> v ] :
                    g \in {0, NewSheetId},
                    v \in {<<HeaderRow>>, <<HeaderRow, 1>>, <<HeaderRow, 1, 2>>} }
  /\ jobs = EmptyBag
  /\ PortalAtRest

NextSheet ==
  \/ spreadsheetUpdateRoute
  \/ spreadsheetWriteRoute
  \/ spreadsheetDeleteRoute
  \/ ensureMonthlySheetExists
  \/ addSheet
  \/ headerValues
  \/ updateGet
  \/ valuesAppend
  \/ valuesUpdate
  \/ deleteGet
  \/ deleteMeta
  \/ deleteDimension

SpecSheet == InitSheet /\ [][NextSheet]_vars

\* ================================================================= claims
StopCalls == {c \in BagToSet(calls) : c.kind = "stop"}
SplitCalls == {c \in BagToSet(calls) : c.kind = "split"}
StartCalls == {c \in BagToSet(calls) : c.kind = "start"}

\* C1: the store never holds two entries of the user whose end is null.
\* The table has no constraint on open entries and the start button stays
\* enabled until the insert has returned, so this fails.
C1_AtMostOneOpenEntry == Cardinality(OpenRows(User)) <= 1

\* C2: a split closes the old entry and creates the new one atomically: while
\* a split has closed its entry, the user has an open entry.
C2_SplitAtomic ==
  \A c \in SplitCalls :
    (c.pc \in {"sheetUpdate", "sheetWrite", "insert"}
       /\ \E r \in rows : r.id = c.entryId /\ r.end # NoEnd)
    => OpenRows(User) # {}

\* C3: while the save of a confirmed stop is in flight, a second confirmation
\* sends nothing: at most one closing update of a stop is in flight.
C3_SingleStopInFlight ==
  /\ Cardinality(StopCalls) <= 1
  /\ \A c \in StopCalls : CopiesIn(c, calls) = 1
  /\ (StopCalls # {}) => timer.isSaving

C3_Witness ==
  /\ last = "handleSaveEntry:ignored"
  /\ \E c \in StopCalls : c.pc = "update" /\ c.entryId \in RowIds

\* C4: a stop whose update fails leaves the controller running on the same
\* entry id and start instant, leaves the table as it was and releases the
\* saving flag.
C4_StopFailureKeepsRunning ==
  [][last' = "StopUpdate:failed" =>
       /\ timer.isRunning /\ timer'.isRunning
       /\ timer'.currentEntryId = timer.currentEntryId
       /\ timer'.startTime = timer.startTime
       /\ rows' = rows
       /\ timer.isSaving /\ ~timer'.isSaving
       /\ \A c \in StopCalls' : c \in StopCalls /\ CopiesIn(c, calls') < CopiesIn(c, calls)]_vars

C4_Witness ==
  /\ last = "StopUpdate:failed"
  /\ timer.isRunning /\ ~timer.isSaving /\ timer.showCommentDialog
  /\ \E r \in OpenRows(User) : r.id = timer.currentEntryId /\ r.start = timer.startTime

\* 23:59:59.999 of the date of instant t in zone z, and 00:00:00.000 of the
\* date that follows it.
ZoneDayEnd(t, z) == (getDateInTimezone(t, z) + 1) * MsPerDay - TIMEZONES[z] - 1
ZoneNextDayStart(t, z) == (getDateInTimezone(t, z) + 1) * MsPerDay - TIMEZONES[z]

Abs(x) == IF x >= 0 THEN x ELSE 0 - x

\* C5: a split closes the running entry at 23:59:59.999 of the date of its
\* start in the selected zone: the offset that detected the day change is the
\* offset the boundary is computed with.
C5_SplitClosesAtZoneDayEnd ==
  \A c \in SplitCalls :
    /\ c.end = ZoneDayEnd(c.start, c.zone)
    /\ \A r \in rows :
         (r.id = c.entryId /\ c.pc # "update") => r.end = ZoneDayEnd(r.start, c.zone)

\* C6: the entry a split creates has a fresh id, starts at 00:00:00.000 of the
\* date after the old entry's start date in the selected zone, is dated that
\* date, and has the task and the comment of the old entry.
C6_SplitOpensNextZoneDay ==
  \A c \in SplitCalls : c.pc = "insert" =>
    /\ c.newStart = ZoneNextDayStart(c.start, c.zone)
    /\ c.date = getDateInTimezone(c.start, c.zone) + 1
    /\ c.newId \notin RowIds
    /\ \A r \in rows : r.id = c.entryId => r.taskId = c.taskId /\ r.comment = c.comment

\* C7: at a split, the duration of the closed entry plus the time the new
\* entry has run equals the time since the start of the old entry, to within
\* one second.
C7_DurationContinuous ==
  \A c \in SplitCalls : c.pc = "insert" =>
    /\ Abs(((c.end - c.start) + (now - c.newStart)) - (now - c.start)) <= MsPerSecond
    /\ \A r \in rows : r.id = c.entryId =>
         Abs(((r.end - r.start) + (now - c.newStart)) - (now - r.start)) <= MsPerSecond

C7_Witness ==
  \E c \in SplitCalls :
    /\ c.pc = "insert"
    /\ TIMEZONES[c.zone] # localOffset
    /\ getDateInTimezone(now, c.zone) > getDateInTimezone(c.start, c.zone) + 1
    /\ \E r \in rows : r.id = c.entryId /\ r.end = c.end /\ r.start = c.start

\* C8: the table rejects the insert of an open entry for a user who has one.
C8_InsertConflict ==
  [][\A r \in rows' \ rows : r.end = NoEnd => OpenRows(r.user) = {}]_vars

\* C9: start without a task changes nothing; a start inserts an open entry
\* whose start is the instant of the click; the controller starts running
\* only when that insert has succeeded (or on a reload), on the id the table
\* returned; a failed insert changes nothing.
C9_StartProtocol ==
  [][/\ last' = "handleStart:noTask" =>
          UNCHANGED <<timer, timeEntries, rows, calls>>
     /\ \A c \in StartCalls' \ StartCalls :
          c.newStart = now /\ c.end = NoEnd /\ ~timer'.isRunning
     /\ last' = "StartInsert:ok" =>
          \E c \in StartCalls : \E r \in rows' \ rows :
            /\ r.start = c.newStart /\ r.end = NoEnd /\ r.taskId = c.taskId
            /\ timer'.isRunning
            /\ timer'.currentEntryId = r.id
            /\ timer'.startTime = r.start
     /\ last' = "StartInsert:failed" => timer' = timer /\ rows' = rows
     /\ (~timer.isRunning /\ timer'.isRunning) =>
          /\ last' \in {"StartInsert:ok", "Reload"}
          /\ \E r \in rows' : r.id = timer'.currentEntryId /\ r.end = NoEnd]_vars

C9_Witness ==
  /\ last = "StartInsert:ok"
  /\ timer.isRunning
  /\ \E r \in OpenRows(User) : r.id = timer.currentEntryId /\ r.start = timer.startTime

\* C10: after a reload with an open entry, no elapsed time is shown when the
\* entry started on another date of the selected zone, and elapsed is
\* now - start otherwise.
C10_RestoreUsesSelectedZone ==
  (last = "Reload" /\ timer.isRunning) =>
    IF getDateInTimezone(timer.startTime, timer.timezone)
         # getDateInTimezone(now, timer.timezone)
    THEN timer.elapsedSeconds = 0
    ELSE timer.elapsedSeconds = elapsedOf(now, timer.startTime)

\* C11: every entry of the table that has an end starts no later than it
\* ends.  A split closes the running entry at the end of the browser's day
\* and moves the timer to the start of the browser's next day, which may lie
\* in the future; a stop before that instant closes the new entry at now.
ClosedRows == {r \in rows : r.end # NoEnd}

C11_StartNotAfterEnd == \A r \in ClosedRows : r.start <= r.end

\* C12: the date of every entry of the table is the calendar date of its
\* start in the selected zone (the zone is not changed in this run).  The
\* dialogs date an entry with the content of their start date input, a date of
\* the browser's zone.
C12_DateIsZoneDateOfStart ==
  \A r \in rows : r.date = getDateInTimezone(r.start, timer.timezone)

\* Two entries share more than an instant; an entry without end runs on.
Overlap(r, q) ==
  /\ r.start < q.start \/ (r.start = q.start /\ r.id < q.id)
  /\ r.end = NoEnd \/ q.start < r.end
  /\ q.end = NoEnd \/ q.start < q.end

\* C13: no two entries of one user in the table overlap in time.  Neither the
\* dialogs nor addTimeEntry nor the table compare a new entry with the
\* entries there are.
C13_NoOverlap ==
  \A r, q \in rows : r.user = q.user => ~Overlap(r, q)

\* Requests to the spreadsheet routes that are in flight, and those a step
\* has issued.
ExportCalls(cs) == {c \in BagToSet(cs) : c.pc \in {"sheetUpdate", "sheetWrite"}}
IssuedExports == {c \in ExportCalls(calls') : CopiesIn(c, calls') > CopiesIn(c, calls)}

\* C14: a stop or a split that closes an entry of the table issues, in the
\* same turn, the request to mirror the entry of that id; a request to mirror
\* an entry is issued only when the table holds the entry with an end; no
\* request in flight concerns an entry the table holds without an end.
C14_CloseThenExport ==
  [][/\ \A r \in rows' :
          (r.end # NoEnd /\ \E q \in rows : q.id = r.id /\ q.end = NoEnd)
            => \E c \in IssuedExports :
                 c.pc = "sheetUpdate" /\ c.entryId = r.id /\ c.end = r.end
     /\ \A c \in IssuedExports :
          \E r \in rows' : r.id = c.entryId /\ r.end # NoEnd
     /\ \A c \in ExportCalls(calls') :
          \A r \in rows' : r.id = c.entryId => r.end # NoEnd]_vars

C14_Witness ==
  /\ \E c \in SplitCalls : c.pc = "sheetWrite" /\ c.entryId \in RowIds
  /\ \E c \in StopCalls : c.pc = "sheetUpdate" /\ c.entryId \in RowIds
  /\ OpenRows(User) = {}

\* The invocation a step has resumed or ended.
Stepped == {c \in BagToSet(calls) : CopiesIn(c, calls') < CopiesIn(c, calls)}

\* C15: when a request to a spreadsheet route fails after a stop, a split, an
\* edit or a delete, the table and the local list stay as they are and the
\* handler goes on as after a success: updateTimeEntry returns to its caller,
\* the stop makes the timer idle, the split moves the timer to the new entry
\* and sends its insert, the edit and the delete end.
C15_ExportFailureOnlyLogged ==
  [][last' = "export:failed" =>
       /\ rows' = rows
       /\ timeEntries' = timeEntries
       /\ Stepped # {}
       /\ \A c \in Stepped :
            /\ c.pc \in {"sheetUpdate", "sheetWrite", "sheetDelete"}
            /\ (c.kind \in {"stop", "split"} /\ c.pc = "sheetUpdate") =>
                 CopiesIn([c EXCEPT !.pc = "sheetWrite"], calls')
                   > CopiesIn([c EXCEPT !.pc = "sheetWrite"], calls)
            /\ (c.kind = "stop" /\ c.pc = "sheetWrite") =>
                 /\ ~timer'.isRunning /\ ~timer'.isSaving /\ ~timer'.showCommentDialog
                 /\ timer'.currentEntryId = Empty /\ timer'.startTime = Empty
                 /\ BagCardinality(calls') < BagCardinality(calls)
            /\ (c.kind = "split" /\ c.pc = "sheetWrite") =>
                 /\ timer'.currentEntryId = c.newId
                 /\ \E d \in BagToSet(calls') :
                      d.kind = "split" /\ d.pc = "insert" /\ d.newId = c.newId
            /\ c.kind \in {"edit", "delete"} =>
                 BagCardinality(calls') < BagCardinality(calls)]_vars

C15_Witness ==
  /\ last = "export:failed"
  /\ \E c \in SplitCalls :
       /\ c.pc = "insert" /\ timer.currentEntryId = c.newId
       /\ \E r \in rows : r.id = c.entryId /\ r.end = c.end

\* Rows of the sheet keyed by an entry id.
RowsKeyed(values, id) == Cardinality({k \in 2..Len(values) : values[k] = id})

\* The invocation of a sheet function that a step has ended.
Returned(fns) ==
  {j \in BagToSet(jobs) :
     j.fn \in fns /\ BagCardinality(jobs') < BagCardinality(jobs)
       /\ CopiesIn(j, jobs') < CopiesIn(j, jobs)}

\* C16: whenever writeTimeEntryToSheet or updateTimeEntryInSheet has ended
\* for an entry, the sheet holds exactly one row keyed by its id.  The write
\* path appends without looking, the update path gives up on a sheet that has
\* only its header, and two invocations that both found no row both append.
C16_OneRowPerEntry ==
  [][\A j \in Returned({"write", "update"}) : RowsKeyed(sheet'.values, j.id) = 1]_vars

\* C17: deleteTimeEntry for an id of which the caller sees no row fails,
\* leaves the table and the local list as they are and requests no removal
\* from the spreadsheet.  delete().eq("id", id) on no row is no error, so the
\* function goes on as after a removal.
C17_DeleteInvisibleFails ==
  [][\A c \in Stepped :
       (c.kind = "delete" /\ c.pc = "delete" /\ ~Visible(c.entryId)) =>
         /\ last' = "deleteTimeEntry:failed"
         /\ rows' = rows
         /\ timeEntries' = timeEntries
         /\ \A d \in BagToSet(calls') : d.pc = "sheetDelete" => CopiesIn(d, calls') <= CopiesIn(d, calls)]_vars

\* The table holds no row of the user with this id.
NoRowOf(id) == \A r \in rows : r.id # id \/ r.user # User

C19_DeleteRemovesOnlyItsRow ==
  [][\A j \in Returned({"delete"}) :
       \A id \in RowIds :
         id # j.id => RowsKeyed(sheet'.values, id) = RowsKeyed(sheet.values, id)]_vars

\* The date and time inputs describe a start and an end, the end after the
\* start and neither after instant t.
InputValid(f, t) ==
  /\ ValidDateTime(f.startDate, f.startTime)
  /\ ValidDateTime(f.endDate, f.endTime)
  /\ parseLocal(f.startDate, f.startTime) < parseLocal(f.endDate, f.endTime)
  /\ parseLocal(f.endDate, f.endTime) <= t

\* Calls of addTimeEntry and updateTimeEntry a step has made.
IssuedSaves ==
  {c \in BagToSet(calls') :
     c.kind \in {"add", "edit"} /\ CopiesIn(c, calls') > CopiesIn(c, calls)}

\* C20: a click on the save button of a dialog whose inputs do not describe a
\* past interval (or, in the manual dialog, with no task selected) makes no
\* call of addTimeEntry, updateTimeEntry or deleteTimeEntry.  The inputs are
\* validated only while all four are filled in: an entry without end leaves
\* the end inputs of the edit dialog blank.
C20_InvalidInputRejected ==
  [][/\ (dlg.open = "manual" /\ dlg'.clicks > dlg.clicks
           /\ (dlg.manual.selectedTaskId = Empty \/ ~InputValid(dlg.manual, now)))
          => calls' = calls
     /\ (dlg.open = "edit" /\ ~InputValid(dlg.edit, now))
          => /\ IssuedSaves = {}
             /\ BagCardinality(calls') <= BagCardinality(calls) + 1]_vars

\* ------------------------------------------------- tasks and the webhook
\* In the task and approval tables null and the empty string are NoText, and
\* an issue id is a number in 1..NumIssues (Empty: no issue).
NoText == ""

\* assignee_email of a task every user may use.
GlobalEmail == "TaskForAll@task.com"

UserIds == {"u1", "u2", "u3"}
Email == [ u1 |-> "u1@example.com", u2 |-> "u2@example.com", u3 |-> "u3@example.com" ]

IssueIds == 1..NumIssues
StateTypes == {"started", "completed", "canceled"}

\* People issues are assigned to in Linear.
Assignees == {NoText, Email["u1"], Email["u2"]}

\* The variables of the time-entry views, the log apart.
tracker == <<now, localOffset, timer, tickZone, timeEntries, rows, calls, nextId, rowSeq,
             dlg, sheet, jobs>>

\* The time-entry views play no part in the task and approval views.
TrackerAtRest ==
  /\ now = InstantAt(1)
  /\ localOffset \in BrowserOffsets
  /\ timer = InitialTimer(DefaultTimezone)
  /\ tickZone = DefaultTimezone
  /\ timeEntries = <<>>
  /\ rows = {}
  /\ calls = EmptyBag
  /\ nextId = 0
  /\ rowSeq = 0
  /\ dlg = ClosedDialogs
  /\ sheet = NoSheet
  /\ jobs = EmptyBag

Task(id, issue, state, assignee) ==
  [ id |-> id, linear_issue_id |-> issue, linear_state_type |-> state,
    assignee_email |-> assignee ]

Approval(u, role, approved) == [ user_id |-> u, role |-> role, approved |-> approved ]

\* user_approvals.select('role').eq('user_id', u).single()
RoleOf(u) ==
  IF \E a \in approvals : a.user_id = u
  THEN (CHOOSE a \in approvals : a.user_id = u).role
  ELSE NoText

\* The tasks filter of TaskTimer.
availableTasksAnyState(ts, email) ==
  {task \in ts :
     \/ task.assignee_email = GlobalEmail
     \/ task.assignee_email = email}
availableTasks(ts, email) ==
  {task \in ts :
     /\ ~(task.linear_state_type = "completed" \/ task.linear_state_type = "canceled")
     /\ \/ task.assignee_email = GlobalEmail
        \/ task.assignee_email = email}

\* The tasks filter of ManualTimeEntryDialog.
dialogAvailableTasks(ts, email) ==
  {task \in ts :
     /\ ~(task.linear_state_type = "completed" \/ task.linear_state_type = "canceled")
     /\ \/ task.assignee_email = GlobalEmail
        \/ email # NoText /\ task.assignee_email = email}

\* filteredData of fetchTasks.
filteredData(data, isAdmin, email) ==
  IF isAdmin
  THEN data
  ELSE {task \in data : task.assignee_email # NoText /\ task.assignee_email = email}

\* A user signs in: a fresh page, whose AuthContext reads the role.
SignIn ==
  /\ \E u \in UserIds : auth' = [ user |-> u, isAdmin |-> RoleOf(u) = "admin" ]
  /\ tasks' = {}
  /\ last' = "SignIn"
  /\ UNCHANGED <<tracker, taskTable, taskSeq, hooks, approvals>>

\* fetchTasks of the hook resolves (Supabase mode).
fetchTasks ==
  /\ tasks' = filteredData(taskTable, auth.isAdmin, Email[auth.user])
  /\ last' = "fetchTasks"
  /\ UNCHANGED <<tracker, taskTable, taskSeq, auth, hooks, approvals>>

\* POST /api/admin/tasks/create-global with the one task name the model uses.
createGlobal ==
  /\ IF RoleOf(auth.user) # "admin"
     THEN last' = "create-global:403" /\ UNCHANGED <<taskTable, taskSeq>>
     ELSE IF \E task \in taskTable :
               task.linear_issue_id = Empty /\ task.assignee_email = GlobalEmail
          THEN last' = "create-global:exists" /\ UNCHANGED <<taskTable, taskSeq>>
          ELSE /\ taskSeq < MaxTasks
               /\ taskSeq' = taskSeq + 1
               /\ taskTable' = taskTable \cup {Task(taskSeq + 1, Empty, NoText, GlobalEmail)}
               /\ last' = "create-global:201"
  /\ UNCHANGED <<tracker, tasks, auth, hooks, approvals>>

\* An invocation of the webhook: the payload and, once the task of the issue
\* has been looked up, its id.
Hook(action, issue, state, assignee, pc, found) ==
  [ action |-> action, issue |-> issue, state |-> state, assignee |-> assignee,
    pc |-> pc, found |-> found ]

\* The fields of an Issue payload the handlers read; handleIssueRemove reads
\* the issue id only.
Payloads ==
  {Hook(a, i, st, as, "select", Empty) :
     a \in {"create", "restore", "update"}, i \in IssueIds, st \in StateTypes, as \in Assignees}
  \cup {Hook("remove", i, NoText, NoText, "select", Empty) : i \in IssueIds}

Proceed(h, k) == hooks' = (hooks (-) SetToBag({h})) (+) SetToBag({k})
Respond(h) == hooks' = hooks (-) SetToBag({h})

\* tasks.select(...).eq('linear_issue_id', issue).single(): data is null
\* unless exactly one row matches.
TasksOfIssue(issue) == {task \in taskTable : task.linear_issue_id = issue}
existingTask(issue) ==
  IF Cardinality(TasksOfIssue(issue)) = 1
  THEN (CHOOSE task \in TasksOfIssue(issue) : TRUE).id
  ELSE Empty

\* The constraint unique_linear_issue_id on an insert.
UniqueViolationOff(issue) == FALSE
UniqueViolation(issue) == TasksOfIssue(issue) # {}

\* processWebhookEvent receives an Issue event and dispatches on its action.
processWebhookEvent ==
  /\ BagCardinality(hooks) < MaxHooks
  /\ \E h \in Payloads : hooks' = hooks (+) SetToBag({h})
  /\ last' = "-"
  /\ UNCHANGED <<tracker, taskTable, taskSeq, tasks, auth, approvals>>

\* The lookup of the task of the issue returns.
IssueSelect ==
  \E h \in {k \in BagToSet(hooks) : k.pc = "select"} :
    /\ IF h.action \in {"create", "restore"}
       THEN IF existingTask(h.issue) # Empty
            THEN Respond(h) /\ last' = "webhook:exists"
            ELSE Proceed(h, [h EXCEPT !.pc = "insert"]) /\ last' = "-"
       ELSE IF existingTask(h.issue) = Empty
            THEN Respond(h) /\ last' = "webhook:404"
            ELSE /\ Proceed(h, [h EXCEPT !.pc = IF h.action = "update" THEN "update"
                                                  ELSE "delete",
                                         !.found = existingTask(h.issue)])
                 /\ last' = "-"
    /\ UNCHANGED <<tracker, taskTable, taskSeq, tasks, auth, approvals>>

\* The insert of handleIssueCreate returns.
IssueInsert ==
  \E h \in {k \in BagToSet(hooks) : k.pc = "insert"} :
    /\ IF UniqueViolation(h.issue)
       THEN last' = "webhook:duplicate" /\ UNCHANGED <<taskTable, taskSeq>>
       ELSE /\ taskSeq < MaxTasks
            /\ taskSeq' = taskSeq + 1
            /\ taskTable' = taskTable \cup {Task(taskSeq + 1, h.issue, h.state, h.assignee)}
            /\ last' = "webhook:201"
    /\ Respond(h)
    /\ UNCHANGED <<tracker, tasks, auth, approvals>>

\* The update of handleIssueUpdate returns: .eq('id', existingTask.id)
\* .select().single() fails when the row is gone.
IssueUpdate ==
  \E h \in {k \in BagToSet(hooks) : k.pc = "update"} :
    /\ IF \E task \in taskTable : task.id = h.found
       THEN /\ taskTable' = {IF task.id = h.found
                             THEN [task EXCEPT !.linear_state_type = h.state,
                                               !.assignee_email = h.assignee]
                             ELSE task : task \in taskTable}
            /\ last' = "webhook:200"
       ELSE last' = "webhook:500" /\ UNCHANGED taskTable
    /\ Respond(h)
    /\ UNCHANGED <<tracker, taskSeq, tasks, auth, approvals>>

\* The delete of handleIssueRemove returns.
IssueDelete ==
  \E h \in {k \in BagToSet(hooks) : k.pc = "delete"} :
    /\ taskTable' = {task \in taskTable : task.id # h.found}
    /\ last' = "webhook:deleted"
    /\ Respond(h)
    /\ UNCHANGED <<tracker, taskSeq, tasks, auth, approvals>>

\* An admin and a user, both approved, and a third account without an
\* approval record; u2 has just signed in.  The table is one the webhook
\* leaves behind: at most one task per issue.
InitTasks ==
  /\ TrackerAtRest
  /\ taskTable \in
       {tt \in SUBSET {Task(i, i, st, as) :
                         i \in IssueIds, st \in StateTypes, as \in Assignees} :
          \A i \in IssueIds : Cardinality({task \in tt : task.linear_issue_id = i}) <= 1}
  /\ taskSeq = NumIssues
  /\ tasks = {}
  /\ approvals = {Approval("u1", "admin", TRUE), Approval("u2", "user", TRUE)}
  /\ auth = [ user |-> "u2", isAdmin |-> FALSE ]
  /\ hooks = EmptyBag
  /\ last = "SignIn"

NextTasks ==
  \/ SignIn
  \/ fetchTasks
  \/ createGlobal

SpecTasks == InitTasks /\ [][NextTasks]_vars

\* The webhook endpoint, with an admin signed in who may add the global task.
InitWebhook ==
  /\ TrackerAtRest
  /\ taskTable = {}
  /\ taskSeq = 0
  /\ tasks = {}
  /\ approvals = {Approval("u1", "admin", TRUE), Approval("u2", "user", TRUE)}
  /\ auth = [ user |-> "u1", isAdmin |-> TRUE ]
  /\ hooks = EmptyBag
  /\ last = "SignIn"

NextWebhook ==
  \/ createGlobal
  \/ processWebhookEvent
  \/ IssueSelect
  \/ IssueInsert
  \/ IssueUpdate
  \/ IssueDelete

SpecWebhook == InitWebhook /\ [][NextWebhook]_vars

\* --------------------------------------------------------- user approvals
Known(u) == \E a \in approvals : a.user_id = u

\* POST /api/admin/users/[userId]/revoke by the signed-in user.
revoke ==
  /\ \E userId \in UserIds :
       IF RoleOf(auth.user) # "admin"
       THEN last' = "revoke:403" /\ UNCHANGED approvals
       ELSE IF auth.user = userId
            THEN last' = "revoke:400" /\ UNCHANGED approvals
            ELSE IF ~Known(userId)
                 THEN last' = "revoke:404" /\ UNCHANGED approvals
                 ELSE /\ approvals' = {IF a.user_id = userId
                                       THEN [a EXCEPT !.approved = FALSE]
                                       ELSE a : a \in approvals}
                      /\ last' = "revoke:200"
  /\ UNCHANGED <<tracker, taskTable, taskSeq, tasks, auth, hooks>>

\* POST /api/admin/users/[userId]/approve by the signed-in user.
approve ==
  /\ \E userId \in UserIds, role \in {"user", "admin", "owner"} :
       IF RoleOf(auth.user) # "admin"
       THEN last' = "approve:403" /\ UNCHANGED approvals
       ELSE IF role # "user" /\ role # "admin"
            THEN last' = "approve:400" /\ UNCHANGED approvals
            ELSE IF ~Known(userId)
                 THEN last' = "approve:404" /\ UNCHANGED approvals
                 ELSE /\ approvals' = {IF a.user_id = userId
                                       THEN [a EXCEPT !.approved = TRUE, !.role = role]
                                       ELSE a : a \in approvals}
                      /\ last' = "approve:200"
  /\ UNCHANGED <<tracker, taskTable, taskSeq, tasks, auth, hooks>>

\* DELETE /api/admin/users/[userId]/delete by the signed-in user.
deleteUser ==
  /\ \E userId \in UserIds :
       IF RoleOf(auth.user) # "admin"
       THEN last' = "delete:403" /\ UNCHANGED approvals
       ELSE IF ~Known(userId)
            THEN last' = "delete:404" /\ UNCHANGED approvals
            ELSE IF userId = auth.user
                 THEN last' = "delete:400" /\ UNCHANGED approvals
                 ELSE /\ approvals' = {a \in approvals : a.user_id # userId}
                      /\ last' = "delete:200"
  /\ UNCHANGED <<tracker, taskTable, taskSeq, tasks, auth, hooks>>

\* The first admin is signed in; two users have signed up and wait for
\* approval.
InitAdmin ==
  /\ TrackerAtRest
  /\ taskTable = {}
  /\ taskSeq = 0
  /\ tasks = {}
  /\ approvals = {Approval("u1", "admin", TRUE), Approval("u2", "user", FALSE),
                  Approval("u3", "user", FALSE)}
  /\ auth = [ user |-> "u1", isAdmin |-> TRUE ]
  /\ hooks = EmptyBag
  /\ last = "SignIn"

NextAdmin ==
  \/ SignIn
  \/ revoke
  \/ approve
  \/ deleteUser

SpecAdmin == InitAdmin /\ [][NextAdmin]_vars

\* C23: while the timer runs, currentEntryId is the id of an entry of the
\* table that has no end.  After a split the timer holds the id generateId()
\* made for the new entry, and the table gives the inserted row an id of its
\* own.
C23_CurrentEntryIsOpenRow ==
  timer.isRunning => \E r \in OpenRows(User) : r.id = timer.currentEntryId

\* C24: while the timer is idle and no start is in flight, no step other than
\* a reload gives the table a new entry without end or changes currentEntryId
\* or startTime of the timer.  A split that was suspended when the stop was
\* confirmed goes on after it: it sets both cells and inserts its new entry.
C24_IdleStaysIdle ==
  [][(~timer.isRunning /\ StartCalls = {} /\ last' # "Reload") =>
       /\ \A r \in rows' : r.end = NoEnd => r \in rows
       /\ timer'.currentEntryId = timer.currentEntryId
       /\ timer'.startTime = timer.startTime]_vars

\* The start of the running entry and now fall on one date of the zone that
\* is selected.
SameZoneDate ==
  getDateInTimezone(timer.startTime, timer.timezone)
    = getDateInTimezone(now, timer.timezone)

\* C25: a tick invokes the split only when the date of now in the selected
\* zone differs from that of the start of the running entry, and shows the
\* elapsed time max(0, now - start), touching no entry, only when they are
\* equal.  The interval callback reads the zone of the render that created
\* it, and a change of the zone does not create a new one.
C25_TickSplitsOnZoneDateChange ==
  [][/\ (\E c \in SplitCalls' : c.pc = "update" /\ CopiesIn(c, calls') > CopiesIn(c, calls))
          => ~SameZoneDate
     /\ (timer.isRunning /\ timer'.isRunning /\ last' # "Reload"
           /\ timer'.startTime = timer.startTime
           /\ timer'.elapsedSeconds # timer.elapsedSeconds)
          => /\ SameZoneDate
             /\ timer'.elapsedSeconds = elapsedOf(now, timer.startTime)
             /\ UNCHANGED <<rows, calls, timeEntries>>]_vars

\* The page is opened by a user whose entry has been running since the first
\* instant of the sweep: the list is fetched and the entry restored.
RunningRow(z) ==
  [ id |-> 1, user |-> User, taskId |-> 1,
    start |-> CHOOSE t \in SweepInstants(z) : \A u \in SweepInstants(z) : t <= u,
    end |-> NoEnd, comment |-> Empty,
    date |-> getDateInTimezone(
               CHOOSE t \in SweepInstants(z) : \A u \in SweepInstants(z) : t <= u, z) ]

InitCatchUp ==
  /\ \E tz \in TimezoneKey :
       /\ now \in SweepInstants(tz)
       /\ rows = {RunningRow(tz)}
       /\ timeEntries = <<RunningRow(tz)>>
       /\ timer = CommentEffect(Restored(<<RunningRow(tz)>>, tz, now),
                                <<RunningRow(tz)>>, now)
       /\ tickZone = tz
  /\ localOffset \in SweepOffsets
  /\ calls = EmptyBag
  /\ nextId = 0
  /\ rowSeq = 1
  /\ last = "Reload"
  /\ dlg = ClosedDialogs
  /\ sheet = NoSheet
  /\ jobs = EmptyBag
  /\ PortalAtRest

\* The table answers: an update of a row the caller sees and an insert do
\* not fail.
TableAnswers ==
  \A c \in {d \in BagToSet(calls) : CopiesIn(d, calls') < CopiesIn(d, calls)} :
    /\ (c.pc = "update" /\ Visible(c.entryId))
         => BagCardinality(calls') = BagCardinality(calls)
    /\ c.pc = "insert" => rows' # rows

NextCatchUp ==
  \/ AdvanceSweep /\ TableAnswers
  \/ Tick /\ TableAnswers
  \/ SplitUpdate /\ TableAnswers
  \/ SpreadsheetUpdate /\ TableAnswers
  \/ SplitRestart /\ TableAnswers
  \/ SplitInsert /\ TableAnswers

\* The interval keeps firing and every pending request returns.
SpecCatchUp ==
  /\ InitCatchUp
  /\ [][NextCatchUp]_vars
  /\ WF_vars(Tick /\ TableAnswers)
  /\ WF_vars(SplitUpdate /\ TableAnswers)
  /\ WF_vars(SpreadsheetUpdate /\ TableAnswers)
  /\ WF_vars(SplitRestart /\ TableAnswers)
  /\ WF_vars(SplitInsert /\ TableAnswers)

\* The running entry started on a date of the selected zone before today's.
StartedBeforeToday ==
  /\ timer.isRunning /\ timer.startTime # Empty
  /\ getDateInTimezone(timer.startTime, timer.timezone)
       < getDateInTimezone(now, timer.timezone)

StartedToday ==
  /\ timer.isRunning /\ timer.startTime # Empty
  /\ getDateInTimezone(timer.startTime, timer.timezone)
       = getDateInTimezone(now, timer.timezone)

\* C26: a timer whose entry started on an earlier date reaches, by its ticks,
\* a running entry that started today, and every split a tick starts closes
\* a row of the table.
C26_SplitsCatchUp ==
  /\ [](\A c \in SplitCalls : c.pc = "update" => \E r \in rows : r.id = c.entryId)
  /\ (StartedBeforeToday ~> StartedToday)

\* The updates the timer's handlers send with this step.
IssuedUpdates ==
  {c \in SplitCalls' \cup StopCalls' :
     c.pc = "update" /\ CopiesIn(c, calls') > CopiesIn(c, calls)}

\* C27: the timer sends no update for an entry that is already closed, and the
\* update of a split or of a stop that resolves leaves every closed row as it
\* is.
C27_ClosedEntryNotUpdated ==
  [][/\ \A c \in IssuedUpdates :
          ~\E r \in rows : r.id = c.entryId /\ r.end # NoEnd
     /\ (\E c \in Stepped : c.kind \in {"split", "stop"} /\ c.pc = "update")
          => \A r \in rows : r.end # NoEnd => r \in rows']_vars

\* The tasks the timer and the manual dialog offer to the signed-in user.
Offered ==
  availableTasks(tasks, Email[auth.user])
    \cup dialogAvailableTasks(tasks, Email[auth.user])

\* C21: no task offered for selection is completed or canceled, and every
\* offered task is global or assigned to the signed-in user.
C21_OfferedActiveAndOwn ==
  \A task \in Offered :
    /\ task.linear_state_type \notin {"completed", "canceled"}
    /\ task.assignee_email \in {GlobalEmail, Email[auth.user]}

C21_Witness ==
  /\ last = "fetchTasks"
  /\ Offered # {}
  /\ \E task \in tasks : task.linear_state_type \in {"completed", "canceled"}

\* C22: once the signed-in user's list is fetched, every global task of the
\* table is in the list and offered, and every other task is in the list only
\* if it is assigned to that user.
C22_GlobalForAllAssignedForOne ==
  last = "fetchTasks" =>
    \A task \in taskTable :
      IF task.assignee_email = GlobalEmail
      THEN task \in tasks /\ task \in Offered
      ELSE task \in tasks => task.assignee_email = Email[auth.user]

\* The webhook invocation a step has resumed or ended.
SteppedHooks == {h \in BagToSet(hooks) : CopiesIn(h, hooks') < CopiesIn(h, hooks)}

\* C29: the tasks table holds at most one task per issue; a step of a create
\* or restore for an issue that has a task changes no task, and a step of an
\* update or remove for an issue that has no task adds none.
C29_OneTaskPerIssue ==
  /\ [](\A i \in IssueIds : Cardinality(TasksOfIssue(i)) <= 1)
  /\ [][\A h \in SteppedHooks :
          /\ (h.action \in {"create", "restore"} /\ TasksOfIssue(h.issue) # {})
               => taskTable' = taskTable
          /\ (h.action \in {"update", "remove"} /\ TasksOfIssue(h.issue) = {})
               => taskTable' \subseteq taskTable]_vars

C29_Witness ==
  /\ last = "webhook:duplicate"
  /\ \E i \in IssueIds : Cardinality(TasksOfIssue(i)) = 1

\* The approval record of u says role = admin and approved = true.
ActiveAdmin(u) ==
  \E a \in approvals : a.user_id = u /\ a.role = "admin" /\ a.approved

\* C30: the approval table changes only at the request of a user whose record
\* says admin and approved, and no request removes the caller's own record or
\* takes the caller's own approval away.
C30_OnlyApprovedAdminManages ==
  [][/\ approvals' # approvals => ActiveAdmin(auth.user)
     /\ \A a \in approvals :
          a.user_id = auth.user =>
            \E b \in approvals' : b.user_id = a.user_id /\ (a.approved => b.approved)]_vars

\* The calls of addTimeEntry a click on the add button of the manual dialog
\* sends.
IssuedAdds ==
  {c \in BagToSet(calls') : c.kind = "add" /\ CopiesIn(c, calls') > CopiesIn(c, calls)}

\* The part of the interval from s to e that lies on the local date d.
DayStart(s, d) == IF s > startOfLocalDate(d) THEN s ELSE startOfLocalDate(d)
DayEnd(e, d) == IF e < endOfLocalDate(d) THEN e ELSE endOfLocalDate(d)

\* C28: a manual add whose start date and end date differ sends, for every
\* local date from the start date to the end date, one closed entry that
\* covers the part of the interval on that date, and nothing else.
C28_ManualAddCoversEveryDay ==
  [][(/\ dlg.open = "manual" /\ dlg'.clicks = dlg.clicks + 1
      /\ ~ManualTimesMissing(dlg.manual) /\ ManualCompletes(dlg.manual)
      /\ dlg.manual.startDate < dlg.manual.endDate)
       => LET s == parseLocal(dlg.manual.startDate, dlg.manual.startTime)
              e == parseLocal(dlg.manual.endDate, dlg.manual.endTime)
          IN /\ \A d \in dlg.manual.startDate..dlg.manual.endDate :
                  \E c \in IssuedAdds :
                    c.newStart = DayStart(s, d) /\ c.end = DayEnd(e, d) /\ c.date = d
             /\ \A c \in IssuedAdds : localDate(c.newStart) = localDate(c.end)
             /\ Cardinality(IssuedAdds)
                  = dlg.manual.endDate - dlg.manual.startDate + 1]_vars

====
